---------------------------- MODULE Spec2Model ----------------------------
(***************************************************************************)
(* A model of mistplay.py: the batch pipeline main() (load, deduplicate,   *)
(* rank, flatten, encode, decode_email, location table, lookup, writers)   *)
(* and, after main has finished, single calls of the module's functions    *)
(* with arbitrary arguments.                                               *)
(*                                                                         *)
(* Conventions.                                                            *)
(*  - A DataFrame is [none, index, cols, rows]: the index labels, the      *)
(*    column names in column order, and one record per row.  None (the     *)
(*    absent table) is [none |-> TRUE].                                    *)
(*  - A Python str of the email columns is [t |-> "str", v |-> code        *)
(*    points], a bytes object [t |-> "bytes", v |-> bytes], a null cell    *)
(*    [t |-> "nan", v |-> <<>>].                                           *)
(*  - A str argument (tag, filename, format, location) is                  *)
(*    [t |-> "str", v |-> TLA+ string]; Python's None is PyNone.           *)
(*  - A nullable scalar cell (widget_name, widget_amount) is <<>> for NaN  *)
(*    and <<v>> for the value v.                                           *)
(*  - sub_group_rank holds TWICE the rank, so that the .5 of an average    *)
(*    rank is an integer (rank 1.5 is stored as 3).                        *)
(***************************************************************************)
EXTENDS Integers, Sequences, FiniteSets, TLC

VARIABLES
    pc,            \* the stage main runs next, "done", "raised" or "called"
    raised,        \* the exception that left main, "none" while there is none
    ran,           \* the stages main has completed, in order
    disk,          \* the table in data.json, None when the file is missing
    engine,        \* whether a parquet engine is installed
    fs,            \* the output files written so far
    df, unique_file, data, decoded_data, new_table, list_ids,  \* main's locals
    call           \* the call made after main: function, arguments, result

vars == <<pc, raised, ran, disk, engine, fs, df, unique_file, data, decoded_data,
          new_table, list_ids, call>>

(***************************************************************************)
(* Bounds of the model.                                                    *)
(***************************************************************************)
\* rows of data.json in the slices that vary the key columns and the group
\* and score columns
MaxRows == 4
\* rows of data.json in the slice that varies id, widget_list and location
MaxWidgetRows == 2
\* rows of data.json in the slice that varies the email
MaxEmailRows == 3

(***************************************************************************)
(* Sequence helpers.                                                       *)
(***************************************************************************)
Range(s) == {s[i] : i \in 1..Len(s)}

RECURSIVE IndexOf(_, _, _)
\* list.index(x): the first position of x in s at or after i, 0 for ValueError
IndexOf(s, x, i) ==
    IF i > Len(s) THEN 0
    ELSE IF s[i] = x THEN i
    ELSE IndexOf(s, x, i + 1)

RECURSIVE Remove(_, _)
\* s without the elements equal to x, order kept
Remove(s, x) ==
    IF s = <<>> THEN <<>>
    ELSE IF Head(s) = x THEN Remove(Tail(s), x)
    ELSE <<Head(s)>> \o Remove(Tail(s), x)

RECURSIVE Flat(_)
\* concatenation of a sequence of sequences
Flat(ss) == IF ss = <<>> THEN <<>> ELSE Head(ss) \o Flat(Tail(ss))

RECURSIVE Keep(_, _)
\* the positions of keep (a boolean sequence) that are TRUE, ascending
Keep(keep, i) ==
    IF i > Len(keep) THEN <<>>
    ELSE (IF keep[i] THEN <<i>> ELSE <<>>) \o Keep(keep, i + 1)

(***************************************************************************)
(* Python values.                                                          *)
(***************************************************************************)
PyNone == [t |-> "None", v |-> ""]
Str(s) == [t |-> "str", v |-> s]
Bytes(b) == [t |-> "bytes", v |-> b]
NaN == [t |-> "nan", v |-> <<>>]
None == [none |-> TRUE]

DataFrame(index, cols, rows) ==
    [none |-> FALSE, index |-> index, cols |-> cols, rows |-> rows]

\* a Series: index labels and values
Series(index, values) == [index |-> index, values |-> values]

\* the result of one call: what it raised ("none" when it returned), what it
\* returned, and the tables and files it leaves behind
Outcome(exc, ret) == [raised |-> exc, ret |-> ret]

(***************************************************************************)
(* The codecs encode_table and decode_table call: str.encode('utf-8',      *)
(* 'strict'), bytes.decode('utf-8', 'strict'), base64.b64encode and        *)
(* base64.b64decode.  Each returns [ok, v]; ok = FALSE is the codec's      *)
(* exception.                                                              *)
(***************************************************************************)
Ok(v) == [ok |-> TRUE, v |-> v]
Fail == [ok |-> FALSE, v |-> <<>>]

\* one byte per code point (latin-1) instead of UTF-8
Latin1Bytes(cp) == <<cp % 256>>

\* the UTF-8 bytes of one code point; <<>> for a surrogate (not encodable)
Utf8Bytes(cp) ==
    IF cp < 128 THEN <<cp>>
    ELSE IF cp < 2048 THEN <<192 + (cp \div 64), 128 + (cp % 64)>>
    ELSE IF cp >= 55296 /\ cp <= 57343 THEN <<>>
    ELSE IF cp < 65536
         THEN <<224 + (cp \div 4096), 128 + ((cp \div 64) % 64), 128 + (cp % 64)>>
    ELSE <<240 + (cp \div 262144), 128 + ((cp \div 4096) % 64),
           128 + ((cp \div 64) % 64), 128 + (cp % 64)>>

RECURSIVE Utf8Encode(_)
\* x.encode('utf-8', 'strict') of a sequence of code points
Utf8Encode(s) ==
    IF s = <<>> THEN Ok(<<>>)
    ELSE LET b == Utf8Bytes(Head(s))
             rest == Utf8Encode(Tail(s))
         IN  IF b = <<>> \/ ~rest.ok THEN Fail ELSE Ok(b \o rest.v)

IsCont(b) == b >= 128 /\ b <= 191

RECURSIVE Utf8Decode(_)
\* x.decode('utf-8', 'strict') of a sequence of bytes
Utf8Decode(b) ==
    IF b = <<>> THEN Ok(<<>>)
    ELSE LET b1 == b[1]
             n == IF b1 < 128 THEN 1
                  ELSE IF b1 >= 194 /\ b1 <= 223 THEN 2
                  ELSE IF b1 >= 224 /\ b1 <= 239 THEN 3
                  ELSE IF b1 >= 240 /\ b1 <= 244 THEN 4
                  ELSE 0
         IN  IF n = 0 \/ Len(b) < n THEN Fail
             ELSE LET lo2 == IF b1 = 224 THEN 160 ELSE IF b1 = 240 THEN 144 ELSE 128
                      hi2 == IF b1 = 237 THEN 159 ELSE IF b1 = 244 THEN 143 ELSE 191
                      good == /\ n >= 2 => (b[2] >= lo2 /\ b[2] <= hi2)
                              /\ n >= 3 => IsCont(b[3])
                              /\ n >= 4 => IsCont(b[4])
                      cp == IF n = 1 THEN b1
                            ELSE IF n = 2 THEN (b1 - 192) * 64 + (b[2] - 128)
                            ELSE IF n = 3 THEN (b1 - 224) * 4096 + (b[2] - 128) * 64
                                               + (b[3] - 128)
                            ELSE (b1 - 240) * 262144 + (b[2] - 128) * 4096
                                 + (b[3] - 128) * 64 + (b[4] - 128)
                      rest == Utf8Decode(SubSeq(b, n + 1, Len(b)))
                  IN  IF ~good \/ ~rest.ok THEN Fail ELSE Ok(<<cp>> \o rest.v)

\* the base64 alphabet: the character of a 6-bit value
B64Char(v) ==
    IF v < 26 THEN 65 + v
    ELSE IF v < 52 THEN 97 + (v - 26)
    ELSE IF v < 62 THEN 48 + (v - 52)
    ELSE IF v = 62 THEN 43
    ELSE 47

\* the 6-bit value of a character, 64 for a character outside the alphabet
B64Value(c) ==
    IF c >= 65 /\ c <= 90 THEN c - 65
    ELSE IF c >= 97 /\ c <= 122 THEN c - 97 + 26
    ELSE IF c >= 48 /\ c <= 57 THEN c - 48 + 52
    ELSE IF c = 43 THEN 62
    ELSE IF c = 47 THEN 63
    ELSE 64

RECURSIVE b64encode(_)
\* base64.b64encode(b): three bytes to four characters, '=' (61) padding
b64encode(b) ==
    IF b = <<>> THEN <<>>
    ELSE IF Len(b) = 1
         THEN <<B64Char(b[1] \div 4), B64Char((b[1] % 4) * 16), 61, 61>>
    ELSE IF Len(b) = 2
         THEN <<B64Char(b[1] \div 4), B64Char((b[1] % 4) * 16 + (b[2] \div 16)),
                B64Char((b[2] % 16) * 4), 61>>
    ELSE <<B64Char(b[1] \div 4), B64Char((b[1] % 4) * 16 + (b[2] \div 16)),
           B64Char((b[2] % 16) * 4 + (b[3] \div 64)), B64Char(b[3] % 64)>>
         \o b64encode(SubSeq(b, 4, Len(b)))

RECURSIVE A2bBase64(_, _, _, _, _, _)
\* binascii.a2b_base64 (not strict): characters outside the alphabet are
\* skipped, the padding ends the data, a dangling quad is an error
A2bBase64(s, i, quad_pos, leftchar, pads, out) ==
    IF i > Len(s) THEN (IF quad_pos # 0 THEN Fail ELSE Ok(out))
    ELSE IF s[i] = 61
         THEN IF quad_pos >= 2 /\ quad_pos + pads + 1 >= 4 THEN Ok(out)
              ELSE A2bBase64(s, i + 1, quad_pos, leftchar,
                             IF quad_pos >= 2 THEN pads + 1 ELSE pads, out)
    ELSE LET c == B64Value(s[i])
         IN  IF c = 64 THEN A2bBase64(s, i + 1, quad_pos, leftchar, pads, out)
             ELSE IF quad_pos = 0 THEN A2bBase64(s, i + 1, 1, c, 0, out)
             ELSE IF quad_pos = 1
                  THEN A2bBase64(s, i + 1, 2, c % 16, 0,
                                 Append(out, leftchar * 4 + (c \div 16)))
             ELSE IF quad_pos = 2
                  THEN A2bBase64(s, i + 1, 3, c % 4, 0,
                                 Append(out, leftchar * 16 + (c \div 4)))
             ELSE A2bBase64(s, i + 1, 0, 0, 0, Append(out, leftchar * 64 + c))

\* base64.b64decode(s) of a str: the str must be ASCII
b64decode(s) ==
    IF \E i \in 1..Len(s) : s[i] >= 128 THEN Fail
    ELSE A2bBase64(s, 1, 0, 0, 0, <<>>)

(***************************************************************************)
(* DataFrame helpers (the pandas operations the functions use).            *)
(***************************************************************************)
HasCol(d, c) == c \in Range(d.cols)

\* d[c] = values: a new column goes last, an existing one keeps its place
SetCol(d, c, values) ==
    DataFrame(d.index,
              IF HasCol(d, c) THEN d.cols ELSE Append(d.cols, c),
              [i \in 1..Len(d.rows) |->
                  [k \in DOMAIN d.rows[i] \cup {c} |->
                      IF k = c THEN values[i] ELSE d.rows[i][k]]])

\* del d[c]
DelCol(d, c) ==
    DataFrame(d.index, Remove(d.cols, c),
              [i \in 1..Len(d.rows) |->
                  [k \in DOMAIN d.rows[i] \ {c} |-> d.rows[i][k]]])

\* d[mask]: the rows at the positions pos, with their index labels
TakeRows(d, pos) ==
    DataFrame([j \in 1..Len(pos) |-> d.index[pos[j]]], d.cols,
              [j \in 1..Len(pos) |-> d.rows[pos[j]]])

\* d[c] as a Series
Col(d, c) == Series(d.index, [i \in 1..Len(d.rows) |-> d.rows[i][c]])

(***************************************************************************)
(* remove_duplicates                                                       *)
(***************************************************************************)
\* DataFrame.duplicated(subset, keep="first"): row i repeats an earlier row
Duplicated(d, subset, i) ==
    \E j \in 1..(i - 1) : \A c \in subset : d.rows[j][c] = d.rows[i][c]

\* drop_duplicates(keep="last") instead of keep="first"
remove_duplicates_keep_last(d) ==
    IF d.none THEN Outcome("Exception", None)
    ELSE Outcome("none",
                 TakeRows(d, Keep([i \in 1..Len(d.rows) |->
                                      ~\E j \in (i + 1)..Len(d.rows) :
                                          \A c \in {"id", "created_at"} :
                                              d.rows[j][c] = d.rows[i][c]], 1)))

remove_duplicates(d) ==
    IF d.none THEN Outcome("Exception", None)
    ELSE Outcome("none",
                 TakeRows(d, Keep([i \in 1..Len(d.rows) |->
                                      ~Duplicated(d, {"id", "created_at"}, i)], 1)))

(***************************************************************************)
(* sub_group_rank                                                          *)
(***************************************************************************)
RECURSIVE InsertDesc(_, _, _)
\* i inserted into the positions s, sorted by descending score, after every
\* position of an equal score (a stable sort)
InsertDesc(s, i, score) ==
    IF s = <<>> THEN <<i>>
    ELSE IF score[Head(s)] >= score[i]
         THEN <<Head(s)>> \o InsertDesc(Tail(s), i, score)
    ELSE <<i>> \o s

RECURSIVE SortDesc(_, _)
\* the positions s in descending order of score
SortDesc(s, score) ==
    IF s = <<>> THEN <<>>
    ELSE InsertDesc(SortDesc(SubSeq(s, 1, Len(s) - 1), score), s[Len(s)], score)

RECURSIVE RankLoop(_, _, _, _, _, _)
\* the ranking loop over the sorted positions: sum_ranks and dups run over a
\* stretch of equal scores, and at its end every position of the stretch
\* gets sum_ranks / dups (stored doubled)
RankLoop(order, score, i, sum_ranks, dups, out) ==
    IF i > Len(order) THEN out
    ELSE LET s == sum_ranks + i
             n == dups + 1
         IN  IF i = Len(order) \/ score[order[i]] # score[order[i + 1]]
             THEN RankLoop(order, score, i + 1, 0, 0,
                           [k \in DOMAIN out |->
                               IF \E j \in (i - n + 1)..i : order[j] = k
                               THEN (2 * s) \div n ELSE out[k]])
             ELSE RankLoop(order, score, i + 1, s, n, out)

\* method='min' instead of 'average': every tied row gets the first position
RankMin(s, score) ==
    [k \in Range(s) |->
        2 * (Cardinality({j \in Range(s) : score[j] > score[k]}) + 1)]

\* Series.rank(ascending=False) of the rows at the positions s (method
\* 'average'): a function from position to doubled rank
RankAverage(s, score) ==
    RankLoop(SortDesc(s, score), score, 1, 0, 0, [k \in Range(s) |-> 0])

\* rank(ascending=True) instead of ascending=False
GroupRankAscending(d) ==
    LET n == Len(d.rows)
        score == [i \in 1..n |-> 0 - d.rows[i]["user_score"]]
        group(i) == Keep([j \in 1..n |->
                             d.rows[j]["age_group"] = d.rows[i]["age_group"]], 1)
    IN  [i \in 1..n |-> RankAverage(group(i), score)[i]]

\* data.groupby('age_group')['user_score'].rank(ascending=False)
GroupRank(d) ==
    LET n == Len(d.rows)
        score == [i \in 1..n |-> d.rows[i]["user_score"]]
        group(i) == Keep([j \in 1..n |->
                             d.rows[j]["age_group"] = d.rows[i]["age_group"]], 1)
    IN  [i \in 1..n |-> RankAverage(group(i), score)[i]]

\* the table is changed in place: data is the table after the call
sub_group_rank(d) ==
    IF d.none THEN [raised |-> "Exception", ret |-> None, data |-> d]
    ELSE [raised |-> "none", ret |-> None,
          data |-> SetCol(d, "sub_group_rank", GroupRank(d))]

(***************************************************************************)
(* flatten                                                                 *)
(***************************************************************************)
\* data.explode('widget_list'): one row per list element, the index label
\* repeated; an empty list gives one row whose widget_list is NaN (<<>>)
Explode(d) ==
    LET one(i) ==
            LET wl == d.rows[i]["widget_list"]
                cells == IF wl = <<>> THEN << <<>> >>
                         ELSE [k \in 1..Len(wl) |-> <<wl[k]>>]
            IN  [k \in 1..Len(cells) |->
                    [idx |-> d.index[i],
                     row |-> [d.rows[i] EXCEPT !["widget_list"] = cells[k]]]]
        all == Flat([i \in 1..Len(d.rows) |-> one(i)])
    IN  DataFrame([j \in 1..Len(all) |-> all[j].idx], d.cols,
                  [j \in 1..Len(all) |-> all[j].row])

\* the labels of pd.Series(x): the keys of a dict in their order, the label 0
\* (written "0") of the one-element Series made of a NaN
Labels(cell) == IF cell = <<>> THEN <<"0">> ELSE cell[1].keys

RECURSIVE UnionLabels(_, _)
\* the columns of a frame built from Series of different labels: the labels
\* in the order they are first seen
UnionLabels(ls, acc) ==
    IF ls = <<>> THEN acc
    ELSE LET new == SelectSeq(Head(ls), LAMBDA k : k \notin Range(acc))
         IN  UnionLabels(Tail(ls), acc \o new)

\* the labels 0, 'amount', 'name' in sorted order (ints before strs)
LabelOrder == <<"0", "amount", "name">>

\* the columns of dfd['widget_list'].apply(pd.Series).  The Series of a NaN
\* has a RangeIndex and the Series of a dict an object Index; when both
\* occur, a pandas build whose union_indexes sorts (sorts = TRUE) returns the
\* labels sorted, and any other build the labels as first seen
ExpandedCols(cells, sorts) ==
    IF /\ sorts
       /\ \E j \in 1..Len(cells) : cells[j] = <<>>
       /\ \E j \in 1..Len(cells) : cells[j] # <<>>
    THEN SelectSeq(LabelOrder,
                   LAMBDA k : \E j \in 1..Len(cells) : k \in Range(Labels(cells[j])))
    ELSE UnionLabels([j \in 1..Len(cells) |-> Labels(cells[j])], <<>>)

\* the frame of the Series pd.Series(x) of the cells x, with the columns
\* cols; a label a row lacks is NaN
SeriesFrame(index, cells, cols) ==
    DataFrame(index, cols,
              [j \in 1..Len(cells) |->
                  [k \in Range(cols) |->
                      IF cells[j] # <<>> /\ k \in Range(cells[j][1].keys)
                      THEN <<cells[j][1][k]>> ELSE <<>>]])

\* dfd['widget_list'].apply(pd.Series)
ApplySeries(dfd, sorts) ==
    SeriesFrame(dfd.index, Col(dfd, "widget_list").values,
                ExpandedCols(Col(dfd, "widget_list").values, sorts))

\* pd.concat([a, b], axis=1) of two frames of the same index
ConcatCols(a, b) ==
    DataFrame(a.index, a.cols \o b.cols,
              [j \in 1..Len(a.rows) |->
                  [k \in Range(a.cols) \cup Range(b.cols) |->
                      IF k \in Range(b.cols) THEN b.rows[j][k] ELSE a.rows[j][k]]])

\* dfd.rename(columns = {from: to})
Rename(d, from, to) ==
    DataFrame(d.index,
              [j \in 1..Len(d.cols) |-> IF d.cols[j] = from THEN to ELSE d.cols[j]],
              [i \in 1..Len(d.rows) |->
                  [k \in (DOMAIN d.rows[i] \ {from}) \cup {to} |->
                      IF k = to THEN d.rows[i][from] ELSE d.rows[i][k]]])

\* del dfd[0]: KeyError when no row had an empty widget list
DropZero(dfd) ==
    IF ~HasCol(dfd, "0") THEN Outcome("KeyError", None)
    ELSE Outcome("none", DelCol(dfd, "0"))

\* cols[b], cols[a] = cols[a], cols[b]; dfd = dfd[cols]; the rename; the del
SwapRename(dfd, a, b) ==
    IF a = 0 \/ b = 0 THEN Outcome("ValueError", None)
    ELSE DropZero(Rename(Rename([dfd EXCEPT !.cols = [dfd.cols EXCEPT
                                                         ![b] = dfd.cols[a],
                                                         ![a] = dfd.cols[b]]],
                                "name", "widget_name"),
                         "amount", "widget_amount"))

\* a, b = cols.index('amount'), cols.index('name'): ValueError when no row
\* had a widget
Reorder(dfd) ==
    SwapRename(dfd, IndexOf(dfd.cols, "amount", 1), IndexOf(dfd.cols, "name", 1))

\* pd.concat([dfd, dfd['widget_list'].apply(pd.Series)], axis=1)
\*   .drop('widget_list', axis=1)
Expand(exploded, sorts) ==
    DelCol(ConcatCols(exploded, ApplySeries(exploded, sorts)), "widget_list")

\* sorts: whether the pandas build sorts the union of the labels
flatten(d, sorts) ==
    IF d.none THEN Outcome("Exception", None)
    ELSE Reorder(Expand(Explode(d), sorts))

(***************************************************************************)
(* encode_table, decode_table, decode_email                                *)
(***************************************************************************)
\* list(map(f, column)) from the results r of f on the cells: the values,
\* or the exception of the first cell f fails on
MapList(r) ==
    IF \A i \in 1..Len(r) : r[i].ok
    THEN [ok |-> TRUE, v |-> [i \in 1..Len(r) |-> r[i].v], exc |-> "none"]
    ELSE [ok |-> FALSE, v |-> <<>>,
          exc |-> r[CHOOSE i \in 1..Len(r) :
                       ~r[i].ok /\ \A j \in 1..(i - 1) : r[j].ok].exc]

\* the result of a codec on one cell: the value, or the exception exc
CellResult(e, v, exc) ==
    IF e.ok THEN [ok |-> TRUE, v |-> v, exc |-> "none"]
    ELSE [ok |-> FALSE, v |-> v, exc |-> exc]

\* x.encode('utf-8', 'strict') of a cell of the email column
Utf8EncodeCell(x, e) == CellResult(e, Bytes(e.v), "UnicodeEncodeError")
EncodeCell(x) ==
    IF x.t # "str" THEN [ok |-> FALSE, v |-> x, exc |-> "AttributeError"]
    ELSE Utf8EncodeCell(x, Utf8Encode(x.v))

\* base64.b64encode(x) of a bytes cell
B64EncodeCell(x) == [ok |-> TRUE, v |-> Bytes(b64encode(x.v)), exc |-> "none"]

\* x.decode('utf-8', 'strict') of a cell of the email_anon column
Utf8DecodeCell(x, e) == CellResult(e, Str(e.v), "UnicodeDecodeError")
DecodeCell(x) ==
    IF x.t # "bytes" THEN [ok |-> FALSE, v |-> x, exc |-> "AttributeError"]
    ELSE Utf8DecodeCell(x, Utf8Decode(x.v))

\* base64.b64decode(x).decode() of a str cell
B64DecodedCell(x, raw) ==
    IF ~raw.ok THEN [ok |-> FALSE, v |-> x, exc |-> "binascii.Error"]
    ELSE Utf8DecodeCell(x, Utf8Decode(raw.v))
B64DecodeCell(x) == B64DecodedCell(x, b64decode(x.v))

\* encode_table from its second statement on: d1 is the destination with
\* the UTF-8 bytes in email_anon and without email
EncodeBase64(d1) ==
    [raised |-> "none",
     dest |-> SetCol(d1, "email_anon",
                     MapList([i \in 1..Len(d1.rows) |->
                                 B64EncodeCell(d1.rows[i]["email_anon"])]).v)]

\* encode_table after its first map: utf8 is the list of the encoded emails
EncodeStore(destination_df, utf8) ==
    IF ~utf8.ok THEN [raised |-> utf8.exc, dest |-> destination_df]
    ELSE EncodeBase64(DelCol(SetCol(destination_df, "email_anon", utf8.v), "email"))

\* dest is the destination table after the call (it is changed in place)
encode_table(source_df, destination_df) ==
    IF source_df.none THEN [raised |-> "Exception", dest |-> destination_df]
    ELSE EncodeStore(destination_df,
                     MapList([i \in 1..Len(source_df.rows) |->
                                 EncodeCell(source_df.rows[i]["email"])]))

\* decode_table's second assignment: plain is the list of the decoded emails
DecodeStorePlain(d1, plain) ==
    IF ~plain.ok THEN [raised |-> plain.exc, dest |-> d1]
    ELSE [raised |-> "none", dest |-> SetCol(d1, "recovered_email", plain.v)]

\* decode_table's second map, over the column its first assignment stored
DecodeBase64(d1) ==
    DecodeStorePlain(d1, MapList([i \in 1..Len(d1.rows) |->
                                     B64DecodeCell(d1.rows[i]["recovered_email"])]))

\* decode_table after its first map: text is the list of the base64 strs
DecodeStoreText(destination_df, text) ==
    IF ~text.ok THEN [raised |-> text.exc, dest |-> destination_df]
    ELSE DecodeBase64(SetCol(destination_df, "recovered_email", text.v))

decode_table(source_df, destination_df) ==
    IF source_df.none THEN [raised |-> "Exception", dest |-> destination_df]
    ELSE DecodeStoreText(destination_df,
                         MapList([i \in 1..Len(source_df.rows) |->
                                     DecodeCell(source_df.rows[i]["email_anon"])]))

\* data[data.email_anon == encoded_email_tag]
RowsOfTag(encoded_email_tag, d) ==
    TakeRows(d, Keep([i \in 1..Len(d.rows) |->
                         d.rows[i]["email_anon"] = encoded_email_tag], 1))

\* decode_email without the del of recovered_email
DecodeSelectKeepsColumn(encoded_email_tag, decoded) ==
    IF decoded.raised # "none"
    THEN [raised |-> decoded.raised, ret |-> None, data |-> decoded.dest]
    ELSE [raised |-> "none",
          ret |-> Col(RowsOfTag(encoded_email_tag, decoded.dest), "recovered_email"),
          data |-> decoded.dest]

\* decode_email after decode_table(data, data): decoded is its outcome
DecodeSelect(encoded_email_tag, decoded) ==
    IF decoded.raised # "none"
    THEN [raised |-> decoded.raised, ret |-> None, data |-> decoded.dest]
    ELSE [raised |-> "none",
          ret |-> Col(RowsOfTag(encoded_email_tag, decoded.dest), "recovered_email"),
          data |-> DelCol(decoded.dest, "recovered_email")]

\* data is the table after the call
decode_email(encoded_email_tag, d) ==
    IF d.none THEN [raised |-> "Exception", ret |-> None, data |-> d]
    ELSE IF encoded_email_tag.t = "None" \/ Len(encoded_email_tag.v) = 0
         THEN [raised |-> "IOError", ret |-> None, data |-> d]
    ELSE DecodeSelect(encoded_email_tag, decode_table(d, d))

(***************************************************************************)
(* location_table, get_id_from_location                                    *)
(***************************************************************************)
\* the location values of the model in ascending order (str comparison)
Locations == <<"", "Canada", "China">>

RECURSIVE Unique(_, _)
\* SeriesGroupBy.unique(): the values in the order they are first seen
Unique(s, acc) ==
    IF s = <<>> THEN acc
    ELSE Unique(Tail(s), IF Head(s) \in Range(acc) THEN acc ELSE Append(acc, Head(s)))

\* group['id'] without unique(): an id once per row
GroupIdsRepeated(d, l) ==
    Col(TakeRows(d, Keep([i \in 1..Len(d.rows) |-> d.rows[i]["location"] = l], 1)),
        "id").values

\* group['id'].unique() of the group of location l
GroupIds(d, l) ==
    Unique(Col(TakeRows(d, Keep([i \in 1..Len(d.rows) |->
                                    d.rows[i]["location"] = l], 1)),
               "id").values, <<>>)

\* pd.DataFrame({'location': table.index, 'id': table.values}): keys are the
\* group keys in sorted order
LocationFrame(d, keys) ==
    DataFrame([j \in 1..Len(keys) |-> j - 1], <<"location", "id">>,
              [j \in 1..Len(keys) |->
                  [location |-> keys[j], id |-> GroupIds(d, keys[j])]])

location_table(d) ==
    IF d.none THEN Outcome("Exception", None)
    ELSE Outcome("none",
                 LocationFrame(d, SelectSeq(Locations,
                     LAMBDA l : \E i \in 1..Len(d.rows) : d.rows[i]["location"] = l)))

get_id_from_location(location_tag, d) ==
    IF d.none THEN Outcome("Exception", None)
    ELSE IF location_tag.t = "None" \/ Len(location_tag.v) = 0
         THEN Outcome("IOError", None)
    ELSE Outcome("none",
                 Col(TakeRows(d, Keep([i \in 1..Len(d.rows) |->
                                          d.rows[i]["location"] = location_tag.v], 1)),
                     "id"))

(***************************************************************************)
(* write_to_parquet, write_to_json                                         *)
(***************************************************************************)
\* files is the set of files before the call, fs the set after it; installed
\* says whether a parquet engine is installed
write_to_parquet(d, filename, installed, files) ==
    IF d.none THEN [raised |-> "Exception", fs |-> files]
    ELSE IF filename.t = "None" \/ Len(filename.v) = 0
         THEN [raised |-> "IOError", fs |-> files]
    ELSE IF ~installed THEN [raised |-> "ImportError", fs |-> files]
    ELSE [raised |-> "none", fs |-> files \cup {filename.v \o ".parquet.gzip"}]

write_to_json(d, format, filename, files) ==
    IF d.none THEN [raised |-> "Exception", fs |-> files]
    ELSE IF format.t = "None" \/ Len(format.v) = 0
         THEN [raised |-> "IOError", fs |-> files]
    ELSE IF filename.t = "None" THEN [raised |-> "TypeError", fs |-> files]
    ELSE [raised |-> "none", fs |-> files \cup {filename.v \o ".json"}]

(***************************************************************************)
(* The inputs: the tables data.json may hold.                              *)
(***************************************************************************)
InputCols ==
    <<"id", "created_at", "age_group", "user_score", "widget_list", "location",
      "email">>

Row(id, created_at, age_group, user_score, widget_list, location, email) ==
    [id |-> id, created_at |-> created_at, age_group |-> age_group,
     user_score |-> user_score, widget_list |-> widget_list,
     location |-> location, email |-> email]

\* widget records; keys is the order of the keys in the JSON object
Sword == [keys |-> <<"name", "amount">>, name |-> "sword", amount |-> 1]
Shield == [keys |-> <<"amount", "name">>, name |-> "shield", amount |-> 2]
Bow == [keys |-> <<"name", "amount">>, name |-> "bow", amount |-> 3]
WidgetLists == {<<>>, <<Sword>>, <<Shield>>, <<Sword, Bow>>}

\* "a@b.com"
EmailAB == Str(<<97, 64, 98, 46, 99, 111, 109>>)
\* "ggolsworthyrl@is.gd"
EmailGG ==
    Str(<<103, 103, 111, 108, 115, 119, 111, 114, 116, 104, 121, 114, 108, 64,
          105, 115, 46, 103, 100>>)
\* "e@b.c" with an acute accent on the e (U+00E9): two bytes in UTF-8
EmailAcute == Str(<<233, 64, 98, 46, 99>>)
\* euro sign, "@", grinning face (U+20AC, U+1F600): three and four bytes
EmailWide == Str(<<8364, 64, 128512>>)
\* a lone surrogate (U+D800) followed by "@b": not encodable
EmailSurrogate == Str(<<55296, 64, 98>>)
Emails == {EmailAB, EmailGG, EmailAcute, EmailWide, EmailSurrogate, NaN}

RECURSIVE RowSeqs(_, _)
\* the sequences of n rows whose i-th row is drawn from rows[i]
RowSeqs(n, rows) ==
    IF n = 0 THEN {<<>>}
    ELSE {Append(s, r) : s \in RowSeqs(n - 1, rows), r \in rows[n]}

\* the tables of n rows whose i-th row is drawn from rows[i]; read_json
\* labels the rows 0, 1, 2, ...
TablesOf(n, rows) ==
    {DataFrame([i \in 1..n |-> i - 1], InputCols, r) : r \in RowSeqs(n, rows)}

\* the rows that vary the key columns id and created_at
KeyRows(i) ==
    {Row(id, created_at, "a", 1, <<>>, "China", EmailAB) :
        id \in {1, 2}, created_at \in {1, 2}}

\* the rows that vary the group and the score
RankRows(i) ==
    {Row(i, 1, age_group, user_score, <<>>, "China", EmailAB) :
        age_group \in {"a", "b"}, user_score \in {1, 2, 3}}

\* the rows that vary id, widget_list and location
WidgetRows(i) ==
    {Row(id, i, "a", 1, wl, loc, EmailAB) :
        id \in {1, 2}, wl \in WidgetLists, loc \in Range(Locations)}

\* the rows that vary the email and whether there is a widget
EmailRows(i) ==
    {Row(i, 1, "a", i, wl, "China", email) :
        wl \in {<<>>, <<Sword>>}, email \in Emails}

Inputs ==
    UNION ({TablesOf(n, [i \in 1..n |-> KeyRows(i)]) : n \in 1..MaxRows}
           \cup {TablesOf(n, [i \in 1..n |-> RankRows(i)]) : n \in 1..MaxRows}
           \cup {TablesOf(n, [i \in 1..n |-> WidgetRows(i)]) : n \in 1..MaxWidgetRows}
           \cup {TablesOf(n, [i \in 1..n |-> EmailRows(i)]) : n \in 1..MaxEmailRows})

NoSeries == Series(<<>>, <<>>)
NoCall == [fn |-> "none", none |-> FALSE, arg |-> PyNone, format |-> PyNone,
           raised |-> "none", ret |-> None]

Init ==
    /\ pc = "data_reading"
    /\ raised = "none"
    /\ ran = <<>>
    /\ disk \in Inputs \cup {None}
    /\ engine \in BOOLEAN
    /\ fs = {}
    /\ df = None
    /\ unique_file = None
    /\ data = None
    /\ decoded_data = NoSeries
    /\ new_table = None
    /\ list_ids = NoSeries
    /\ call = NoCall

(***************************************************************************)
(* main: one action per stage.  A stage that raises ends main: the error   *)
(* is not caught anywhere.                                                 *)
(***************************************************************************)
\* the stages of main in the order of its statements
Stages ==
    <<"data_reading", "remove_duplicates", "sub_group_rank", "flatten",
      "encode_table", "decode_email", "location_table", "get_id_from_location",
      "write_new_table", "write_original_table", "write_to_json">>

\* the stage after stage, "done" after the last
After(stage) ==
    LET i == IndexOf(Stages, stage, 1)
    IN  IF i = Len(Stages) THEN "done" ELSE Stages[i + 1]

\* an except clause that swallows the error: main goes on to the next stage
FinishSwallowed(stage, exc) ==
    /\ pc' = After(stage)
    /\ ran' = Append(ran, stage)
    /\ raised' = exc

\* the stage returned (exc = "none") or raised exc
Finish(stage, exc) ==
    IF exc = "none"
    THEN /\ pc' = After(stage)
         /\ ran' = Append(ran, stage)
         /\ raised' = raised
    ELSE /\ pc' = "raised"
         /\ ran' = ran
         /\ raised' = exc

\* the tag and the location main asks for
MainTag ==
    Bytes(<<90, 50, 100, 118, 98, 72, 78, 51, 98, 51, 74, 48, 97, 72, 108, 121,
            98, 69, 66, 112, 99, 121, 53, 110, 90, 65, 61, 61>>)
MainLocation == Str("China")

\* df = data_reading(): read_json fails when data.json is missing
MainDataReading ==
    /\ pc = "data_reading"
    /\ Finish("data_reading", IF disk.none THEN "ValueError" ELSE "none")
    /\ df' = disk
    /\ UNCHANGED <<disk, engine, fs, unique_file, data, decoded_data, new_table,
                   list_ids, call>>

\* unique_file = remove_duplicates(df)
MainRemoveDuplicates ==
    /\ pc = "remove_duplicates"
    /\ \E r \in {remove_duplicates(df)} :
           /\ Finish("remove_duplicates", r.raised)
           /\ unique_file' = r.ret
    /\ UNCHANGED <<disk, engine, fs, df, data, decoded_data, new_table, list_ids,
                   call>>

\* sub_group_rank(unique_file)
MainSubGroupRank ==
    /\ pc = "sub_group_rank"
    /\ \E r \in {sub_group_rank(unique_file)} :
           /\ Finish("sub_group_rank", r.raised)
           /\ unique_file' = r.data
    /\ UNCHANGED <<disk, engine, fs, df, data, decoded_data, new_table, list_ids,
                   call>>

\* data = flatten(unique_file)
MainFlatten ==
    /\ pc = "flatten"
    /\ \E sorts \in BOOLEAN :
          \E r \in {flatten(unique_file, sorts)} :
              /\ Finish("flatten", r.raised)
              /\ data' = r.ret
    /\ UNCHANGED <<disk, engine, fs, df, unique_file, decoded_data, new_table,
                   list_ids, call>>

\* encode_table(data, data)
MainEncodeTable ==
    /\ pc = "encode_table"
    /\ \E r \in {encode_table(data, data)} :
           /\ Finish("encode_table", r.raised)
           /\ data' = r.dest
    /\ UNCHANGED <<disk, engine, fs, df, unique_file, decoded_data, new_table,
                   list_ids, call>>

\* decoded_data = decode_email(b'Z2dvbHN3b3J0aHlybEBpcy5nZA==', data)
MainDecodeEmail ==
    /\ pc = "decode_email"
    /\ \E r \in {decode_email(MainTag, data)} :
           /\ Finish("decode_email", r.raised)
           /\ data' = r.data
           /\ decoded_data' = IF r.raised = "none" THEN r.ret ELSE decoded_data
    /\ UNCHANGED <<disk, engine, fs, df, unique_file, new_table, list_ids, call>>

\* new_table = location_table(data)
MainLocationTable ==
    /\ pc = "location_table"
    /\ \E r \in {location_table(data)} :
           /\ Finish("location_table", r.raised)
           /\ new_table' = r.ret
    /\ UNCHANGED <<disk, engine, fs, df, unique_file, data, decoded_data, list_ids,
                   call>>

\* list_ids = get_id_from_location('China', new_table)
MainGetIdFromLocation ==
    /\ pc = "get_id_from_location"
    /\ \E r \in {get_id_from_location(MainLocation, new_table)} :
           /\ Finish("get_id_from_location", r.raised)
           /\ list_ids' = IF r.raised = "none" THEN r.ret ELSE list_ids
    /\ UNCHANGED <<disk, engine, fs, df, unique_file, data, decoded_data, new_table,
                   call>>

\* write_to_parquet(new_table, 'new_table')
MainWriteNewTable ==
    /\ pc = "write_new_table"
    /\ \E r \in {write_to_parquet(new_table, Str("new_table"), engine, fs)} :
           /\ Finish("write_new_table", r.raised)
           /\ fs' = r.fs
    /\ UNCHANGED <<disk, engine, df, unique_file, data, decoded_data, new_table,
                   list_ids, call>>

\* write_to_parquet(data, 'original_table')
MainWriteOriginalTable ==
    /\ pc = "write_original_table"
    /\ \E r \in {write_to_parquet(data, Str("original_table"), engine, fs)} :
           /\ Finish("write_original_table", r.raised)
           /\ fs' = r.fs
    /\ UNCHANGED <<disk, engine, df, unique_file, data, decoded_data, new_table,
                   list_ids, call>>

\* write_to_json(data, 'records', 'output')
MainWriteToJson ==
    /\ pc = "write_to_json"
    /\ \E r \in {write_to_json(data, Str("records"), Str("output"), fs)} :
           /\ Finish("write_to_json", r.raised)
           /\ fs' = r.fs
    /\ UNCHANGED <<disk, engine, df, unique_file, data, decoded_data, new_table,
                   list_ids, call>>

Next ==
    \/ MainDataReading
    \/ MainRemoveDuplicates
    \/ MainSubGroupRank
    \/ MainFlatten
    \/ MainEncodeTable
    \/ MainDecodeEmail
    \/ MainLocationTable
    \/ MainGetIdFromLocation
    \/ MainWriteNewTable
    \/ MainWriteOriginalTable
    \/ MainWriteToJson

Spec == Init /\ [][Next]_vars

(***************************************************************************)
(* After main has finished: one call of a function of the module, with     *)
(* arguments of the caller's choice, on the tables main built.             *)
(***************************************************************************)
EmailTags ==
    {PyNone, Bytes(<<>>), MainTag,
     \* b'YUBiLmNvbQ==', the encoding of "a@b.com"
     Bytes(<<89, 85, 66, 105, 76, 109, 78, 118, 98, 81, 61, 61>>),
     \* the same characters as a str, which is no bytes object
     Str(<<89, 85, 66, 105, 76, 109, 78, 118, 98, 81, 61, 61>>)}
LocationTags == {PyNone, Str(""), Str("China"), Str("Canada"), Str("Mars")}
Filenames == {PyNone, Str(""), Str("out")}
Formats == {PyNone, Str(""), Str("records")}

Called(fn, none, arg, format, exc, ret) ==
    /\ pc' = "called"
    /\ call' = [fn |-> fn, none |-> none, arg |-> arg, format |-> format,
                raised |-> exc, ret |-> ret]

CallDecodeEmail ==
    /\ pc = "done"
    /\ \E tag \in EmailTags, d \in {None, data} :
          \E r \in {decode_email(tag, d)} :
              /\ Called("decode_email", d.none, tag, PyNone, r.raised, r.ret)
              /\ data' = IF d.none THEN data ELSE r.data
    /\ UNCHANGED <<raised, ran, disk, engine, fs, df, unique_file, decoded_data,
                   new_table, list_ids>>

CallGetIdFromLocation ==
    /\ pc = "done"
    /\ \E tag \in LocationTags, d \in {None, new_table} :
          \E r \in {get_id_from_location(tag, d)} :
              Called("get_id_from_location", d.none, tag, PyNone, r.raised, r.ret)
    /\ UNCHANGED <<raised, ran, disk, engine, fs, df, unique_file, data,
                   decoded_data, new_table, list_ids>>

CallWriteToParquet ==
    /\ pc = "done"
    /\ \E filename \in Filenames, d \in {None, data} :
          \E r \in {write_to_parquet(d, filename, engine, fs)} :
              /\ Called("write_to_parquet", d.none, filename, PyNone, r.raised, None)
              /\ fs' = r.fs
    /\ UNCHANGED <<raised, ran, disk, engine, df, unique_file, data, decoded_data,
                   new_table, list_ids>>

CallWriteToJson ==
    /\ pc = "done"
    /\ \E filename \in Filenames, format \in Formats, d \in {None, data} :
          \E r \in {write_to_json(d, format, filename, fs)} :
              /\ Called("write_to_json", d.none, filename, format, r.raised, None)
              /\ fs' = r.fs
    /\ UNCHANGED <<raised, ran, disk, engine, df, unique_file, data, decoded_data,
                   new_table, list_ids>>

NextCalls ==
    \/ MainDataReading
    \/ MainRemoveDuplicates
    \/ MainSubGroupRank
    \/ MainFlatten
    \/ MainEncodeTable
    \/ MainDecodeEmail
    \/ MainLocationTable
    \/ MainGetIdFromLocation
    \/ MainWriteNewTable
    \/ MainWriteOriginalTable
    \/ MainWriteToJson
    \/ CallDecodeEmail
    \/ CallGetIdFromLocation
    \/ CallWriteToParquet
    \/ CallWriteToJson

SpecCalls == Init /\ [][NextCalls]_vars

(***************************************************************************)
(* The claims.                                                             *)
(***************************************************************************)
\* main has completed the stage
Did(stage) == stage \in Range(ran)

\* the dedup key of a row
Key(r) == <<r["id"], r["created_at"]>>

\* the position in unique_file of the row with the index label
PosOfLabel(label) == CHOOSE p \in 1..Len(unique_file.rows) : unique_file.index[p] = label

\* C1: the table remove_duplicates returns has no two rows of the same
\* (id, created_at), has exactly one row for every pair of the input, each
\* kept row is the first occurrence of its pair with its values unchanged,
\* and the kept rows are in the order of the input.
C1_DedupKeepsFirst ==
    Did("remove_duplicates") =>
        /\ \A i, j \in 1..Len(unique_file.rows) :
              i # j => Key(unique_file.rows[i]) # Key(unique_file.rows[j])
        /\ \A k \in 1..Len(df.rows) :
              Cardinality({i \in 1..Len(unique_file.rows) :
                              Key(unique_file.rows[i]) = Key(df.rows[k])}) = 1
        /\ \A i \in 1..Len(unique_file.rows) :
              /\ \A c \in Range(InputCols) :
                    unique_file.rows[i][c] = df.rows[unique_file.index[i] + 1][c]
              /\ ~\E m \in 1..unique_file.index[i] :
                    Key(df.rows[m]) = Key(df.rows[unique_file.index[i] + 1])
        /\ \A i \in 1..(Len(unique_file.rows) - 1) :
              unique_file.index[i] < unique_file.index[i + 1]

\* C1's case: a table with repeated pairs, of which a later row was dropped
\* and several rows were kept
C1_Witness ==
    /\ Did("remove_duplicates")
    /\ Len(df.rows) = 4
    /\ Len(unique_file.rows) = 2
    /\ unique_file.index = <<0, 2>>

\* the rows of unique_file in the age_group of row i
SameGroup(i) ==
    {j \in 1..Len(unique_file.rows) :
        unique_file.rows[j]["age_group"] = unique_file.rows[i]["age_group"]}

Score(i) == unique_file.rows[i]["user_score"]

\* twice the sub_group_rank of row i
Rank2(i) == unique_file.rows[i]["sub_group_rank"]

\* the rows of the group of i with the score of i
TiedWith(i) == {j \in SameGroup(i) : Score(j) = Score(i)}

IsGroupMax(i) == \A j \in SameGroup(i) : Score(j) <= Score(i)

\* ranks fall as scores rise within a group
RankMonotonic ==
    \A i \in 1..Len(unique_file.rows) :
        \A j \in SameGroup(i) : Score(i) > Score(j) => Rank2(i) < Rank2(j)

\* the ranks of a group are those of the table made of that group alone
RankGroupsIndependent ==
    \A i \in 1..Len(unique_file.rows) :
        LET pos == Keep([j \in 1..Len(unique_file.rows) |-> j \in SameGroup(i)], 1)
            alone == sub_group_rank(DelCol(TakeRows(unique_file, pos),
                                           "sub_group_rank")).data
        IN  \A k \in 1..Len(pos) :
                alone.rows[k]["sub_group_rank"] = Rank2(pos[k])

\* C5 as stated: after sub_group_rank, in every group the row with the
\* maximum user_score has rank 1 (2 when doubled), ranks are monotonic with
\* descending score, and groups do not influence each other.
C5_MaxHasRankOne ==
    Did("sub_group_rank") =>
        /\ \A i \in 1..Len(unique_file.rows) : IsGroupMax(i) => Rank2(i) = 2
        /\ RankMonotonic
        /\ RankGroupsIndependent

\* C5 amended: the row with the maximum user_score of its group has rank 1
\* when no other row of the group has that score, and when k rows share the
\* maximum each has rank (k + 1) / 2; ranks are monotonic with descending
\* score, and groups do not influence each other.
C5_MaxHasRankOneUnlessTied ==
    Did("sub_group_rank") =>
        /\ \A i \in 1..Len(unique_file.rows) :
              IsGroupMax(i) => Rank2(i) = Cardinality(TiedWith(i)) + 1
        /\ RankMonotonic
        /\ RankGroupsIndependent

\* C5's case: two groups, one with a single maximum above two lower rows
C5_Witness ==
    /\ Did("sub_group_rank")
    /\ Len(unique_file.rows) = 4
    /\ \E i \in 1..4 :
          /\ IsGroupMax(i)
          /\ Cardinality(SameGroup(i)) = 3
          /\ Rank2(i) = 2
          /\ \E j \in SameGroup(i) : Rank2(j) = 6

\* C10: rows of one age_group with equal user_score all get the average of
\* the 1-based positions they occupy in descending order of score: with h
\* rows of the group above them and k rows tied, the positions are
\* h+1 .. h+k and the rank is h + (k + 1) / 2 (doubled: 2h + k + 1).
C10_TiesGetAverageRank ==
    Did("sub_group_rank") =>
        \A i \in 1..Len(unique_file.rows) :
            LET h == Cardinality({j \in SameGroup(i) : Score(j) > Score(i)})
                k == Cardinality(TiedWith(i))
            IN  Rank2(i) = 2 * h + k + 1

\* C10's case: two rows tied for the highest score of their group both have
\* rank 1.5, above a lower row
C10_Witness ==
    /\ Did("sub_group_rank")
    /\ \E i, j \in 1..Len(unique_file.rows) :
          /\ i # j
          /\ j \in TiedWith(i)
          /\ IsGroupMax(i)
          /\ Rank2(i) = 3
          /\ Rank2(j) = 3
          /\ \E l \in SameGroup(i) : Rank2(l) = 6

\* main has called flatten (it returned or raised)
FlattenCalled == Did("sub_group_rank") /\ pc # "flatten"

\* the rows of data that come from the row of unique_file at position i
RowsFrom(i) == {j \in 1..Len(data.rows) : data.index[j] = unique_file.index[i]}

\* every row of unique_file contributes max(1, number of widgets) rows to
\* data, each with the row's other values, and a row without widgets one
\* row whose widget_name and widget_amount are NaN
RowsPerInput ==
    \A i \in 1..Len(unique_file.rows) :
        LET wl == unique_file.rows[i]["widget_list"]
        IN  /\ Cardinality(RowsFrom(i)) = IF Len(wl) = 0 THEN 1 ELSE Len(wl)
            /\ \A j \in RowsFrom(i) :
                  /\ \A c \in (Range(unique_file.cols) \ {"widget_list"})
                                 \cap DOMAIN data.rows[j] :
                        data.rows[j][c] = unique_file.rows[i][c]
                  /\ wl = <<>> => /\ data.rows[j]["widget_name"] = <<>>
                                  /\ data.rows[j]["widget_amount"] = <<>>
                  /\ wl # <<>> =>
                        \E k \in 1..Len(wl) :
                            /\ data.rows[j]["widget_name"] = <<wl[k].name>>
                            /\ data.rows[j]["widget_amount"] = <<wl[k].amount>>

\* C4: for every input table flatten returns, without error, a table in
\* which every row contributes max(1, number of its widgets) rows with its
\* other values unchanged, also when no row or every row has an empty list.
C4_FlattenEveryTable ==
    FlattenCalled => (Did("flatten") /\ RowsPerInput)

\* C7: in the table flatten returns there is no widget_list column, there
\* are widget_name and widget_amount, widget_name comes before
\* widget_amount whatever the order of the keys in the widget records, and
\* no other column is added or removed.
C7_WidgetNameBeforeAmount ==
    Did("flatten") =>
        /\ ~HasCol(data, "widget_list")
        /\ HasCol(data, "widget_name")
        /\ HasCol(data, "widget_amount")
        /\ IndexOf(data.cols, "widget_name", 1) < IndexOf(data.cols, "widget_amount", 1)
        /\ pc = "encode_table" =>
              Range(data.cols) = (Range(unique_file.cols) \ {"widget_list"})
                                     \cup {"widget_name", "widget_amount"}

\* the email, before encoding, of the row of data at position j
OriginalEmail(j) == unique_file.rows[PosOfLabel(data.index[j])]["email"]

\* b'YUBiLmNvbQ=='
EncodedAB == Bytes(<<89, 85, 66, 105, 76, 109, 78, 118, 98, 81, 61, 61>>)

\* C2: encode_table followed by decode_table gives back every email, row by
\* row: recovered_email is the email the row had before encoding, and
\* "a@b.com" is encoded as YUBiLmNvbQ==.
C2_RoundTrip ==
    Did("encode_table") =>
        /\ decode_table(data, data).raised = "none"
        /\ \A j \in 1..Len(data.rows) :
              /\ decode_table(data, data).dest.rows[j]["recovered_email"]
                     = OriginalEmail(j)
              /\ OriginalEmail(j) = EmailAB => data.rows[j]["email_anon"] = EncodedAB

\* C2's case: a table with a multi-byte email and "a@b.com" has been encoded
C2_Witness ==
    /\ Did("encode_table")
    /\ \E i, j \in 1..Len(data.rows) :
          /\ OriginalEmail(i) = EmailWide
          /\ OriginalEmail(j) = EmailAB
          /\ data.rows[j]["email_anon"] = EncodedAB

\* the stages in the order the claim gives them
C9_Order ==
    <<"data_reading", "remove_duplicates", "sub_group_rank", "flatten",
      "encode_table", "decode_email", "location_table", "get_id_from_location",
      "write_new_table", "write_original_table", "write_to_json">>

\* the output file of a writer stage
C9_Output(stage) ==
    IF stage = "write_new_table" THEN {"new_table.parquet.gzip"}
    ELSE IF stage = "write_original_table" THEN {"original_table.parquet.gzip"}
    ELSE IF stage = "write_to_json" THEN {"output.json"}
    ELSE {}

\* C9: main runs its stages strictly in order, each after the previous one
\* has completed; a stage that raises ends main with that error, no later
\* stage runs and no later output file is written.
C9_MainStopsAtFirstError ==
    [][/\ raised = "none"
       /\ Len(ran) < Len(C9_Order)
       /\ ran = SubSeq(C9_Order, 1, Len(ran))
       /\ pc = C9_Order[Len(ran) + 1]
       /\ fs = UNION {C9_Output(ran[k]) : k \in 1..Len(ran)}
       /\ \/ /\ raised' = "none"
             /\ ran' = Append(ran, pc)
             /\ pc' = IF Len(ran') = Len(C9_Order) THEN "done"
                      ELSE C9_Order[Len(ran') + 1]
             /\ fs' = fs \cup C9_Output(pc)
          \/ /\ raised' # "none"
             /\ pc' = "raised"
             /\ ran' = ran
             /\ fs' = fs]_vars

\* C9's case: the eight stages before the writers completed, the first
\* writer raised (no parquet engine) and no output file was written
C9_Witness ==
    /\ pc = "raised"
    /\ raised = "ImportError"
    /\ Len(ran) = 8
    /\ fs = {}

\* the locations and the ids of a location in a table
LocationsOf(d) == {d.rows[i]["location"] : i \in 1..Len(d.rows)}
IdsAt(d, l) == {d.rows[i]["id"] : i \in {k \in 1..Len(d.rows) : d.rows[k]["location"] = l}}
IsSet(s) == \A i, j \in 1..Len(s) : i # j => s[i] # s[j]

\* a call of get_id_from_location(tag, new_table) with a str tag was made
LookupCalled ==
    /\ pc = "called"
    /\ call.fn = "get_id_from_location"
    /\ ~call.none
    /\ call.arg.t = "str"

\* the call returned the one entry of the ids of the location, each id once
LookupFound ==
    /\ call.raised = "none"
    /\ Len(call.ret.values) = 1
    /\ IsSet(call.ret.values[1])
    /\ Range(call.ret.values[1]) = IdsAt(data, call.arg.v)

LookupEmpty == call.raised = "none" /\ call.ret.values = <<>>

OneRowPerLocation ==
    /\ IsSet([j \in 1..Len(new_table.rows) |-> new_table.rows[j]["location"]])
    /\ {new_table.rows[j]["location"] : j \in 1..Len(new_table.rows)}
           = LocationsOf(data)

\* C3 as stated: for every location L of D the lookup returns exactly the
\* distinct ids of the rows of D at L, for every non-empty L not in D it
\* returns an empty result, and T has one row per distinct location of D.
C3_LookupEveryLocation ==
    LookupCalled =>
        /\ call.arg.v \in LocationsOf(data) => LookupFound
        /\ (call.arg.v \notin LocationsOf(data) /\ call.arg.v # "") => LookupEmpty
        /\ OneRowPerLocation

\* C3 amended: the same for every NON-EMPTY location L of D; the empty
\* string is refused with the input error even when rows of D have it.
C3_LookupEveryNonEmptyLocation ==
    LookupCalled =>
        /\ (call.arg.v \in LocationsOf(data) /\ call.arg.v # "") => LookupFound
        /\ (call.arg.v \notin LocationsOf(data) /\ call.arg.v # "") => LookupEmpty
        /\ call.arg.v = "" => call.raised = "IOError"
        /\ OneRowPerLocation

\* C3's case: the lookup of a location with two ids, one of them on two
\* rows that flatten made of one
C3_Witness ==
    /\ LookupCalled
    /\ call.arg.v = "China"
    /\ Len(data.rows) = 3
    /\ data.index = <<0, 0, 1>>
    /\ LocationsOf(data) = {"China"}
    /\ call.ret.values = << <<1, 2>> >>

\* the files main writes
MainOutputs == {"new_table.parquet.gzip", "original_table.parquet.gzip", "output.json"}

\* an argument that is None or empty
IsEmptyArg(x) == x.t = "None" \/ Len(x.v) = 0

\* C6: both writers fail with the domain error when the table is absent and
\* with the input error, writing no file, when the filename is empty or
\* null; write_to_json also fails with the input error when the format is
\* empty or null.
C6_WritersRefuseEmptyArguments ==
    (pc = "called" /\ call.fn \in {"write_to_parquet", "write_to_json"}) =>
        /\ call.none => call.raised = "Exception"
        /\ (~call.none /\ IsEmptyArg(call.arg)) =>
              (call.raised = "IOError" /\ fs = MainOutputs)
        /\ (~call.none /\ call.fn = "write_to_json" /\ IsEmptyArg(call.format)) =>
              call.raised = "IOError"

\* the Series decode_email is to return for the tag: the emails, before
\* encoding, of the rows of d whose email_anon is the tag
EmailsOfTag(tag, d) ==
    Series([k \in 1..Len(RowsOfTag(tag, d).rows) |-> RowsOfTag(tag, d).index[k]],
           [k \in 1..Len(RowsOfTag(tag, d).rows) |->
               unique_file.rows[PosOfLabel(RowsOfTag(tag, d).index[k])]["email"]])

\* C8: decode_email(tag, table) returns the decoded emails of exactly the
\* rows whose email_anon is the tag; after the call the table has no
\* recovered_email column and is otherwise as before; it is as before too
\* when the call fails for an empty or null tag or an absent table.
C8_DecodeEmailLeavesTable ==
    [][/\ (pc = "decode_email" /\ pc' # "raised") =>
              /\ data' = data
              /\ ~HasCol(data', "recovered_email")
              /\ decoded_data' = EmailsOfTag(MainTag, data)
       /\ (pc = "done" /\ call'.fn = "decode_email") =>
              /\ data' = data
              /\ ~HasCol(data', "recovered_email")
              /\ call'.none => call'.raised = "Exception"
              /\ (~call'.none /\ IsEmptyArg(call'.arg)) => call'.raised = "IOError"
              /\ (~call'.none /\ ~IsEmptyArg(call'.arg)) =>
                    /\ call'.raised = "none"
                    /\ call'.ret = EmailsOfTag(call'.arg, data)]_vars

\* C8's case: a call that returned the emails of several rows, not all
C8_Witness ==
    /\ pc = "called"
    /\ call.fn = "decode_email"
    /\ call.raised = "none"
    /\ call.ret.values = <<EmailAB, EmailAB>>
    /\ Len(data.rows) = 3
    /\ ~HasCol(data, "recovered_email")

=============================================================================
